---- MODULE Spec2Model ----
(***************************************************************************)
(* The extension registry and dispatch router of the network layer         *)
(* (network/src/client.rs): Client, its RwLock-guarded table of named      *)
(* extensions, the broadcast and targeted dispatch methods, registration,  *)
(* Drop, and the ClientApi handle with its weak back-reference and the     *)
(* outbound channel.                                                       *)
(***************************************************************************)
EXTENDS Integers, Sequences, FiniteSets, TLC

(* ---------------------------------------------------------------------- *)
(* Bounds and input sets                                                   *)
(* ---------------------------------------------------------------------- *)

\* number of dispatch calls (broadcast or targeted) concurrent drivers may start
MaxDispatch == 1
\* number of dispatch calls a single driver may start, one after the other
MaxDriverCalls == 2
\* number of Api calls holders of an Api handle may start
MaxApiCalls == 2

Threads == {"t1", "t2"}
\* the thread that bootstraps the extensions
Bootstrap == {"t1"}
\* the thread that holds the Api handles and calls them
ApiCallers == {"t2"}
NoThread == "none"

\* extension objects; e1 and e2 report the same name
Ext == {"e1", "e2", "e3"}
NoExt == "none"
Names == {"a", "b"}

\* NodeToken and TimerToken are both usize
Tokens == {1, 5}
NoToken == 0
Payloads == {<<>>, <<7>>}

\* NetworkExtension::name of each extension object
name(e) == IF e = "e3" THEN "b" ELSE "a"

BroadcastMethods == {"on_node_added", "on_node_removed", "on_close"}
TargetedMethods ==
    {"on_connected", "on_connection_allowed", "on_connection_denied", "on_message",
     "on_timer_set_allowed", "on_timer_set_denied", "on_timeout"}
ApiMethods == {"send", "connect", "set_timer", "set_timer_once", "clear_timer"}

\* on_close() takes no argument
BroadcastArgs(m) == IF m = "on_close" THEN {NoToken} ELSE Tokens

VARIABLES
    extensions,   \* Client.extensions: name -> extension (NoExt when absent)
    writer,       \* thread holding the RwLock exclusively, or NoThread
    readers,      \* threads holding the RwLock shared
    client,       \* "alive" | "dropping" | "dropped"
    pc,           \* per thread: position in the call it is executing
    cur,          \* per thread: arguments and locals of that call
    callbacks,    \* per extension: the handler invocations it has observed, in order
    started,      \* number of dispatch calls and drops started so far
    outside,      \* per extension: a strong reference is held outside the router
    apis,         \* extensions for which a ClientApi has been created
    policy,       \* per extension: what need_encryption() returns now
    channel,      \* commands accepted by the outbound channel, in order
    chanOpen,     \* whether the outbound channel accepts commands
    apiCalls,     \* number of Api calls started
    logged,       \* the kinds of info! lines written so far
    aborted,      \* the process was aborted by a panic
    hash,         \* core/state/asset_scheme.rs: an H256 in hand
    address,      \* an AssetSchemeAddress made from it, or NoAddress
    scheme,       \* an AssetScheme held in the cache (self of overwrite_with)
    other         \* the AssetScheme that is to overwrite it, or NoScheme

\* the state of the router, its extensions and their Apis
router == <<extensions, writer, readers, client, pc, cur, callbacks, started, outside,
            apis, policy, channel, chanOpen, apiCalls, logged, aborted>>

\* the values of core/state/asset_scheme.rs, which the router never touches
core == <<hash, address, scheme, other>>

vars == <<extensions, writer, readers, client, pc, cur, callbacks, started, outside,
          apis, policy, channel, chanOpen, apiCalls, logged, aborted, core>>

\* no call made by a handler from inside a callback
NoInner == [call |-> "none", method |-> "none", name |-> "none", id |-> NoToken,
            ext |-> NoExt, op |-> 0]

NoCall == [method |-> "none", name |-> "none", id |-> NoToken, ext |-> NoExt,
           op |-> 0, todo |-> {}, data |-> <<>>, ms |-> 0, inner |-> NoInner]

\* Client::new, and the extensions created by their owners
ClientNew ==
    /\ extensions = [n \in Names |-> NoExt]
    /\ writer = NoThread
    /\ readers = {}
    /\ client = "alive"
    /\ pc = [t \in Threads |-> "idle"]
    /\ cur = [t \in Threads |-> NoCall]
    /\ callbacks = [e \in Ext |-> <<>>]
    /\ started = 0
    /\ outside = [e \in Ext |-> TRUE]
    /\ apis = {}
    /\ policy = [e \in Ext |-> FALSE]
    /\ channel = <<>>
    /\ chanOpen = TRUE
    /\ apiCalls = 0
    /\ logged = {}
    /\ aborted = FALSE

\* H256::default()
ZeroHash == [i \in 0..31 |-> 0]
\* no AssetSchemeAddress in hand
NoAddress == [is |-> "none"]
\* no AssetScheme in hand
NoScheme == [is |-> "none"]

\* the router is constructed; nothing of the asset state is in hand
Init ==
    /\ ClientNew
    /\ hash = ZeroHash
    /\ address = NoAddress
    /\ scheme = NoScheme
    /\ other = NoScheme

(* ---------------------------------------------------------------------- *)
(* Helpers: the table, the histories, reference counts                     *)
(* ---------------------------------------------------------------------- *)

\* HashMap::insert: stores the new value under the key whether or not the key is present
MapInsert(table, n, e) == [table EXCEPT ![n] = e]

\* a lookup under the wrong key
TargetOfOther(table, n) == table[CHOOSE x \in Names : x # n]

\* a lookup that falls back to another entry when the key is absent
TargetOfOrFallback(table, n) ==
    IF table[n] # NoExt THEN table[n] ELSE table[CHOOSE x \in Names : x # n]

\* HashMap::get(name)
TargetOf(table, n) == table[n]

\* an iteration that stops before the last key
RegisteredSkipping(table) == {n \in Names : table[n] # NoExt /\ n # "b"}

\* the keys extensions.iter() visits
Registered(table) == {n \in Names : table[n] # NoExt}

\* an insertion at the front of the history
PushFront(h, r) == <<r>> \o h

\* Vec::push on an extension's observed history
Push(h, r) == Append(h, r)

\* one handler invocation as the extension observes it; op and by say which call
\* of which thread made it
Observed(cb, id, data, op, by) == [cb |-> cb, id |-> id, data |-> data, op |-> op, by |-> by]

InRegister(t) == pc[t] \in {"reg_wait", "reg_insert", "reg_init", "init_handler"}

\* a ClientApi that holds an Arc to its extension instead of a Weak
HoldersWithApis(e) ==
    (IF outside[e] \/ e \in apis THEN {"outside"} ELSE {})
    \cup {n \in Names : extensions[n] = e}
    \cup {t \in Threads : pc[t] \in {"reg_insert", "reg_init", "api_send"} /\ cur[t].ext = e}

\* strong (Arc) references to e: the owner outside, the table, the argument of a
\* register_extension call in progress, the result of a successful upgrade
Holders(e) ==
    (IF outside[e] THEN {"outside"} ELSE {})
    \cup {n \in Names : extensions[n] = e}
    \cup {t \in Threads : (InRegister(t) \/ pc[t] = "api_send") /\ cur[t].ext = e}
    \cup {t \in Threads : cur[t].inner.call \in {"write_wait", "write_held"}
                             /\ cur[t].inner.ext = e}

Alive(e) == Holders(e) # {}

\* a back-reference that is used without the liveness check
UpgradeUnchecked(e) == TRUE

\* Weak::upgrade
Upgrade(e) == Alive(e)

Running == client = "alive" /\ ~aborted

(* ---------------------------------------------------------------------- *)
(* Client::register_extension                                              *)
(* ---------------------------------------------------------------------- *)

\* the caller passes a clone of its own Arc; self.extensions.write()
RegLock(t, e) ==
    /\ Running /\ pc[t] = "idle"
    /\ outside[e]
    /\ writer = NoThread /\ readers = {}
    /\ writer' = t
    /\ pc' = [pc EXCEPT ![t] = "reg_insert"]
    /\ cur' = [cur EXCEPT ![t] = [NoCall EXCEPT !.method = "register_extension",
                                                !.ext = e, !.name = name(e)]]
    /\ UNCHANGED <<core, extensions, readers, client, callbacks, started, outside,
                   apis, policy, channel, chanOpen, apiCalls, aborted, logged>>

\* extensions.insert(name, ..): a fresh name goes on to on_initialize
RegInsert(t) ==
    /\ ~aborted /\ pc[t] = "reg_insert"
    /\ extensions[cur[t].name] = NoExt
    /\ extensions' = MapInsert(extensions, cur[t].name, cur[t].ext)
    /\ pc' = [pc EXCEPT ![t] = "reg_init"]
    /\ UNCHANGED <<core, writer, readers, client, cur, callbacks, started, outside,
                   apis, policy, channel, chanOpen, apiCalls, aborted, logged>>

\* extensions.insert(name, ..) returned the previous entry: panic!, and the
\* stack unwinds (the write guard is released, the thread ends)
RegDuplicateUnwind(t) ==
    /\ ~aborted /\ pc[t] = "reg_insert"
    /\ extensions[cur[t].name] # NoExt
    /\ extensions' = MapInsert(extensions, cur[t].name, cur[t].ext)
    /\ writer' = NoThread
    /\ pc' = [pc EXCEPT ![t] = "panicked"]
    /\ cur' = [cur EXCEPT ![t] = NoCall]
    /\ UNCHANGED <<core, readers, client, callbacks, started, outside,
                   apis, policy, channel, chanOpen, apiCalls, aborted, logged>>

\* the same panic! in a build with panic = "abort": the process ends
RegDuplicateAbort(t) ==
    /\ ~aborted /\ pc[t] = "reg_insert"
    /\ extensions[cur[t].name] # NoExt
    /\ extensions' = MapInsert(extensions, cur[t].name, cur[t].ext)
    /\ aborted' = TRUE
    /\ UNCHANGED <<core, writer, readers, client, pc, cur, callbacks, started, outside,
                   apis, policy, channel, chanOpen, apiCalls, logged>>

\* Arc::new(ClientApi {..}); extension.on_initialize(Arc::clone(&api)); return api:
\* the write guard and the argument are dropped
RegInit(t) ==
    /\ ~aborted /\ pc[t] = "reg_init"
    /\ callbacks' = [callbacks EXCEPT ![cur[t].ext] =
                        Push(@, Observed("on_initialize", NoToken, <<>>, 0, t))]
    /\ apis' = apis \cup {cur[t].ext}
    /\ writer' = NoThread
    /\ pc' = [pc EXCEPT ![t] = "idle"]
    /\ cur' = [cur EXCEPT ![t] = NoCall]
    /\ UNCHANGED <<core, extensions, readers, client, started, outside,
                   policy, channel, chanOpen, apiCalls, aborted, logged>>

(* ---------------------------------------------------------------------- *)
(* define_broadcast_method!: on_node_added, on_node_removed, on_close      *)
(* ---------------------------------------------------------------------- *)

\* self.extensions.read(); extensions.iter()
BcLock(t, m, id, limit) ==
    /\ Running /\ pc[t] = "idle"
    /\ started < limit
    /\ writer = NoThread
    /\ started' = started + 1
    /\ readers' = readers \cup {t}
    /\ pc' = [pc EXCEPT ![t] = "bc_iter"]
    /\ cur' = [cur EXCEPT ![t] = [NoCall EXCEPT !.method = m, !.id = id,
                                                !.op = started + 1,
                                                !.todo = Registered(extensions)]]
    /\ UNCHANGED <<core, extensions, writer, client, callbacks, outside,
                   apis, policy, channel, chanOpen, apiCalls, aborted, logged>>

\* one turn of the for loop, in the map's unspecified order
BcCall(t) ==
    /\ ~aborted /\ pc[t] = "bc_iter"
    /\ \E n \in cur[t].todo :
        /\ callbacks' = [callbacks EXCEPT ![extensions[n]] =
                            Push(@, Observed(cur[t].method, cur[t].id, <<>>, cur[t].op, t))]
        /\ cur' = [cur EXCEPT ![t].todo = @ \ {n}]
    /\ UNCHANGED <<core, extensions, writer, readers, client, pc, started, outside,
                   apis, policy, channel, chanOpen, apiCalls, aborted, logged>>

\* the loop is over: the read guard is dropped
BcRet(t) ==
    /\ ~aborted /\ pc[t] = "bc_iter"
    /\ cur[t].todo = {}
    /\ client = "alive"
    /\ readers' = readers \ {t}
    /\ pc' = [pc EXCEPT ![t] = "idle"]
    /\ cur' = [cur EXCEPT ![t] = NoCall]
    /\ UNCHANGED <<core, extensions, writer, client, callbacks, started, outside,
                   apis, policy, channel, chanOpen, apiCalls, aborted, logged>>

(* ---------------------------------------------------------------------- *)
(* define_method!: the seven targeted methods                              *)
(* ---------------------------------------------------------------------- *)

\* on_message also carries the payload
TargetedData(m) == IF m = "on_message" THEN Payloads ELSE {<<>>}

\* self.extensions.read()
TgLock(t, m, n, id, data, limit) ==
    /\ Running /\ pc[t] = "idle"
    /\ started < limit
    /\ writer = NoThread
    /\ started' = started + 1
    /\ readers' = readers \cup {t}
    /\ pc' = [pc EXCEPT ![t] = "tg_call"]
    /\ cur' = [cur EXCEPT ![t] = [NoCall EXCEPT !.method = m, !.name = n, !.id = id,
                                                !.data = data, !.op = started + 1]]
    /\ UNCHANGED <<core, extensions, writer, client, callbacks, outside,
                   apis, policy, channel, chanOpen, apiCalls, aborted, logged>>

\* extensions.get(name): the handler of the entry found, or the log line; then
\* the read guard is dropped
TgCall(t) ==
    /\ ~aborted /\ pc[t] = "tg_call"
    /\ LET e == TargetOf(extensions, cur[t].name) IN
         callbacks' =
             IF e # NoExt
             THEN [callbacks EXCEPT ![e] =
                      Push(@, Observed(cur[t].method, cur[t].id, cur[t].data, cur[t].op, t))]
             ELSE callbacks
    /\ logged' = IF TargetOf(extensions, cur[t].name) # NoExt
                 THEN logged ELSE logged \cup {"doesn't exist"}
    /\ readers' = readers \ {t}
    /\ pc' = [pc EXCEPT ![t] = "idle"]
    /\ cur' = [cur EXCEPT ![t] = NoCall]
    /\ UNCHANGED <<core, extensions, writer, client, started, outside,
                   apis, policy, channel, chanOpen, apiCalls, aborted>>

(* ---------------------------------------------------------------------- *)
(* impl Drop for Client                                                    *)
(* ---------------------------------------------------------------------- *)

\* a drop that releases the table without calling on_close
DropBeginSilent(t) ==
    /\ Running /\ pc[t] = "idle"
    /\ \A u \in Threads \ {t} : pc[u] \in {"idle", "panicked", "api_send"}
    /\ writer = NoThread
    /\ client' = "dropping"
    /\ started' = started + 1
    /\ readers' = readers \cup {t}
    /\ pc' = [pc EXCEPT ![t] = "bc_iter"]
    /\ cur' = [cur EXCEPT ![t] = [NoCall EXCEPT !.method = "on_close",
                                                !.op = started + 1]]
    /\ UNCHANGED <<core, extensions, writer, callbacks, outside,
                   apis, policy, channel, chanOpen, apiCalls, aborted, logged>>

\* drop(&mut self) runs when the last Arc<Client> goes: no other thread is
\* inside a method of the client (it may be inside a method of a ClientApi,
\* which holds no reference to the client). It calls self.on_close()
DropBegin(t) ==
    /\ Running /\ pc[t] = "idle"
    /\ \A u \in Threads \ {t} : pc[u] \in {"idle", "panicked", "api_send"}
    /\ writer = NoThread
    /\ client' = "dropping"
    /\ started' = started + 1
    /\ readers' = readers \cup {t}
    /\ pc' = [pc EXCEPT ![t] = "bc_iter"]
    /\ cur' = [cur EXCEPT ![t] = [NoCall EXCEPT !.method = "on_close",
                                                !.op = started + 1,
                                                !.todo = Registered(extensions)]]
    /\ UNCHANGED <<core, extensions, writer, callbacks, outside,
                   apis, policy, channel, chanOpen, apiCalls, aborted, logged>>

\* self.on_close() has returned; the fields of the client are dropped
DropEnd(t) ==
    /\ ~aborted /\ pc[t] = "bc_iter"
    /\ cur[t].todo = {}
    /\ client = "dropping"
    /\ readers' = readers \ {t}
    /\ extensions' = [n \in Names |-> NoExt]
    /\ client' = "dropped"
    /\ pc' = [pc EXCEPT ![t] = "idle"]
    /\ cur' = [cur EXCEPT ![t] = NoCall]
    /\ UNCHANGED <<core, writer, callbacks, started, outside,
                   apis, policy, channel, chanOpen, apiCalls, aborted, logged>>

(* ---------------------------------------------------------------------- *)
(* impl Api for ClientApi                                                  *)
(* ---------------------------------------------------------------------- *)

Durations == {100}
TimerIds == {3}
ApiPayloads == {<<7>>}

\* send and connect take a NodeToken, the timer methods a timer id
ApiIds(m) == IF m \in {"send", "connect"} THEN Tokens ELSE TimerIds
ApiMs(m) == IF m \in {"set_timer", "set_timer_once"} THEN Durations ELSE {0}
ApiData(m) == IF m = "send" THEN ApiPayloads ELSE {<<>>}

\* the answer the extension gave when it was registered, kept since
NeedEncryptionAtRegistration(e) == FALSE

\* extension.need_encryption(), asked of the upgraded extension by each send
NeedEncryption(e) == policy[e]

\* a handle that builds a ClearTimer command whatever the method
CommandClearOnly(m, e, id, ms, data) ==
    [type |-> "ClearTimer", extension_name |-> name(e), timer_id |-> id]

\* the ConnectionMessage each method builds
Command(m, e, id, ms, data) ==
    CASE m = "send" ->
            [type |-> "SendExtensionMessage", node_id |-> id, extension_name |-> name(e),
             need_encryption |-> NeedEncryption(e), data |-> data]
      [] m = "connect" ->
            [type |-> "RequestNegotiation", node_id |-> id, extension_name |-> name(e),
             version |-> 0]
      [] m = "set_timer" ->
            [type |-> "SetTimer", extension_name |-> name(e), timer_id |-> id, ms |-> ms]
      [] m = "set_timer_once" ->
            [type |-> "SetTimerOnce", extension_name |-> name(e), timer_id |-> id, ms |-> ms]
      [] m = "clear_timer" ->
            [type |-> "ClearTimer", extension_name |-> name(e), timer_id |-> id]

\* a send that queues the message although the channel refused it
ChannelSendAnyway(ch, open, cmd) == Append(ch, cmd)

\* IoChannel::send: Ok and the message is queued, or Err and it is not
ChannelSend(ch, open, cmd) == IF open THEN Append(ch, cmd) ELSE ch

\* a holder of the Api created for e calls one of its methods:
\* self.extension.upgrade() is Some(extension)
ApiUpgrade(t, e, m, id, ms, data) ==
    /\ ~aborted /\ pc[t] = "idle"
    /\ e \in apis
    /\ apiCalls < MaxApiCalls
    /\ Upgrade(e)
    /\ apiCalls' = apiCalls + 1
    /\ pc' = [pc EXCEPT ![t] = "api_send"]
    /\ cur' = [cur EXCEPT ![t] = [NoCall EXCEPT !.method = m, !.ext = e, !.id = id,
                                                !.ms = ms, !.data = data]]
    /\ UNCHANGED <<core, extensions, writer, readers, client, callbacks, started, outside,
                   apis, policy, channel, chanOpen, aborted, logged>>

\* self.extension.upgrade() is None: "The extension already dropped", and the
\* method returns
ApiDropped(t, e, m, id, ms, data) ==
    /\ ~aborted /\ pc[t] = "idle"
    /\ e \in apis
    /\ apiCalls < MaxApiCalls
    /\ ~Upgrade(e)
    /\ apiCalls' = apiCalls + 1
    /\ logged' = logged \cup {"already dropped"}
    /\ UNCHANGED <<core, extensions, writer, readers, client, pc, cur, callbacks, started,
                   outside, apis, policy, channel, chanOpen, aborted>>

\* self.channel.send(..), the log line, and the upgraded Arc is dropped
ApiSend(t) ==
    /\ ~aborted /\ pc[t] = "api_send"
    /\ channel' = ChannelSend(channel, chanOpen,
                     Command(cur[t].method, cur[t].ext, cur[t].id, cur[t].ms, cur[t].data))
    /\ logged' = logged \cup {IF chanOpen THEN "request" ELSE "cannot"}
    /\ pc' = [pc EXCEPT ![t] = "idle"]
    /\ cur' = [cur EXCEPT ![t] = NoCall]
    /\ UNCHANGED <<core, extensions, writer, readers, client, callbacks, started, outside,
                   apis, policy, chanOpen, apiCalls, aborted>>

(* ---------------------------------------------------------------------- *)
(* The surroundings: owners of extensions, the io service                  *)
(* ---------------------------------------------------------------------- *)

\* the owner outside the router drops its Arc<NetworkExtension>
DropOutside(e) ==
    /\ ~aborted /\ outside[e]
    /\ outside' = [outside EXCEPT ![e] = FALSE]
    /\ UNCHANGED <<core, extensions, writer, readers, client, pc, cur, callbacks, started,
                   apis, policy, channel, chanOpen, apiCalls, aborted, logged>>

\* the io service behind the channel stops or resumes accepting messages
SetChannel ==
    /\ ~aborted
    /\ chanOpen' = ~chanOpen
    /\ UNCHANGED <<core, extensions, writer, readers, client, pc, cur, callbacks, started,
                   outside, apis, policy, channel, apiCalls, aborted, logged>>

\* a live extension changes what need_encryption() returns
SetPolicy(e) ==
    /\ ~aborted /\ Alive(e)
    /\ policy' = [policy EXCEPT ![e] = ~@]
    /\ UNCHANGED <<core, extensions, writer, readers, client, pc, cur, callbacks, started,
                   outside, apis, channel, chanOpen, apiCalls, aborted, logged>>

(* ---------------------------------------------------------------------- *)
(* The lock step by step: parked writers, and handlers that call back into *)
(* the router or their Api from inside a callback                          *)
(* ---------------------------------------------------------------------- *)

\* number of dispatch calls, outer or nested, that may be started
MaxReentrant == 2

\* the thread that dispatches events
Dispatchers == {"t2"}

\* t has called self.extensions.write() and has not been granted the lock
WaitingWrite(t) == pc[t] = "reg_wait" \/ cur[t].inner.call = "write_wait"

WritersWaiting == {t \in Threads : WaitingWrite(t)}

\* a lock that grants write() to a thread over the guards that thread holds
CanWriteOverOwn(t) == writer \in {NoThread, t} /\ readers \subseteq {t}

\* parking_lot RwLock::write: granted when no guard of either kind is out
CanWrite(t) == writer = NoThread /\ readers = {}

\* parking_lot RwLock::read: granted when no writer holds the lock and none
\* is parked waiting for it, whether or not the caller already holds a read
\* guard (read is not read_recursive)
CanRead(t) == writer = NoThread /\ WritersWaiting = {}

\* t is inside a callback of an extension
InHandler(t) == pc[t] \in {"tg_handler", "bc_handler", "init_handler"}

\* register_extension is called; self.extensions.write() parks the thread
RegRequest(t, e) ==
    /\ Running /\ pc[t] = "idle"
    /\ outside[e]
    /\ pc' = [pc EXCEPT ![t] = "reg_wait"]
    /\ cur' = [cur EXCEPT ![t] = [NoCall EXCEPT !.method = "register_extension",
                                                !.ext = e, !.name = name(e)]]
    /\ UNCHANGED <<core, extensions, writer, readers, client, callbacks, started, outside,
                   apis, policy, channel, chanOpen, apiCalls, aborted, logged>>

\* write() returns the guard, to register_extension or to a handler that
\* called register_extension
WriteAcquire(t) ==
    /\ ~aborted /\ WaitingWrite(t)
    /\ CanWrite(t)
    /\ writer' = t
    /\ pc' = [pc EXCEPT ![t] = IF @ = "reg_wait" THEN "reg_insert" ELSE @]
    /\ cur' = [cur EXCEPT ![t].inner.call = IF @ = "write_wait" THEN "write_held" ELSE @]
    /\ UNCHANGED <<core, extensions, readers, client, callbacks, started, outside,
                   apis, policy, channel, chanOpen, apiCalls, aborted, logged>>

\* a registration that drops the write guard before it calls on_initialize
RegInitEnterUnlocked(t) ==
    /\ ~aborted /\ pc[t] = "reg_init"
    /\ callbacks' = [callbacks EXCEPT ![cur[t].ext] =
                        Push(@, Observed("on_initialize", NoToken, <<>>, 0, t))]
    /\ apis' = apis \cup {cur[t].ext}
    /\ writer' = NoThread
    /\ pc' = [pc EXCEPT ![t] = "init_handler"]
    /\ UNCHANGED <<core, extensions, readers, client, cur, started, outside,
                   policy, channel, chanOpen, apiCalls, aborted, logged>>

\* Arc::new(ClientApi {..}); extension.on_initialize(Arc::clone(&api)) is entered
RegInitEnter(t) ==
    /\ ~aborted /\ pc[t] = "reg_init"
    /\ callbacks' = [callbacks EXCEPT ![cur[t].ext] =
                        Push(@, Observed("on_initialize", NoToken, <<>>, 0, t))]
    /\ apis' = apis \cup {cur[t].ext}
    /\ pc' = [pc EXCEPT ![t] = "init_handler"]
    /\ UNCHANGED <<core, extensions, writer, readers, client, cur, started, outside,
                   policy, channel, chanOpen, apiCalls, aborted, logged>>

\* on_initialize returns; register_extension returns the api and the write
\* guard is dropped
RegInitReturn(t) ==
    /\ ~aborted /\ pc[t] = "init_handler"
    /\ cur[t].inner = NoInner
    /\ writer' = NoThread
    /\ pc' = [pc EXCEPT ![t] = "idle"]
    /\ cur' = [cur EXCEPT ![t] = NoCall]
    /\ UNCHANGED <<core, extensions, readers, client, callbacks, started, outside,
                   apis, policy, channel, chanOpen, apiCalls, aborted, logged>>

\* extensions.get(name) found the entry: its handler is entered, under the
\* read guard
TgHandlerEnter(t) ==
    /\ ~aborted /\ pc[t] = "tg_call"
    /\ TargetOf(extensions, cur[t].name) # NoExt
    /\ callbacks' = [callbacks EXCEPT ![TargetOf(extensions, cur[t].name)] =
                        Push(@, Observed(cur[t].method, cur[t].id, cur[t].data, cur[t].op, t))]
    /\ pc' = [pc EXCEPT ![t] = "tg_handler"]
    /\ cur' = [cur EXCEPT ![t].ext = TargetOf(extensions, cur[t].name)]
    /\ UNCHANGED <<core, extensions, writer, readers, client, started, outside,
                   apis, policy, channel, chanOpen, apiCalls, aborted, logged>>

\* the handler returns and the read guard is dropped
TgHandlerReturn(t) ==
    /\ ~aborted /\ pc[t] = "tg_handler"
    /\ cur[t].inner = NoInner
    /\ readers' = readers \ {t}
    /\ pc' = [pc EXCEPT ![t] = "idle"]
    /\ cur' = [cur EXCEPT ![t] = NoCall]
    /\ UNCHANGED <<core, extensions, writer, client, callbacks, started, outside,
                   apis, policy, channel, chanOpen, apiCalls, aborted, logged>>

\* one turn of the for loop: the handler of an entry is entered, under the
\* read guard
BcHandlerEnter(t) ==
    /\ ~aborted /\ pc[t] = "bc_iter"
    /\ \E n \in cur[t].todo :
        /\ callbacks' = [callbacks EXCEPT ![extensions[n]] =
                            Push(@, Observed(cur[t].method, cur[t].id, <<>>, cur[t].op, t))]
        /\ cur' = [cur EXCEPT ![t].todo = @ \ {n}, ![t].ext = extensions[n]]
    /\ pc' = [pc EXCEPT ![t] = "bc_handler"]
    /\ UNCHANGED <<core, extensions, writer, readers, client, started, outside,
                   apis, policy, channel, chanOpen, apiCalls, aborted, logged>>

\* the handler returns to the loop
BcHandlerReturn(t) ==
    /\ ~aborted /\ pc[t] = "bc_handler"
    /\ cur[t].inner = NoInner
    /\ pc' = [pc EXCEPT ![t] = "bc_iter"]
    /\ cur' = [cur EXCEPT ![t].ext = NoExt]
    /\ UNCHANGED <<core, extensions, writer, readers, client, callbacks, started, outside,
                   apis, policy, channel, chanOpen, apiCalls, aborted, logged>>

\* the handler calls a method of its own Api: self.extension.upgrade() is
\* Some, the extension being in the table
InnerApiBegin(t, m, id) ==
    /\ ~aborted /\ InHandler(t)
    /\ cur[t].inner = NoInner
    /\ cur[t].ext \in apis
    /\ apiCalls < MaxApiCalls
    /\ Upgrade(cur[t].ext)
    /\ apiCalls' = apiCalls + 1
    /\ cur' = [cur EXCEPT ![t].inner = [NoInner EXCEPT !.call = "api", !.method = m,
                                                       !.id = id]]
    /\ UNCHANGED <<core, extensions, writer, readers, client, pc, callbacks, started,
                   outside, apis, policy, channel, chanOpen, aborted, logged>>

\* an Api method that takes the shared registry lock before it sends
InnerApiEndUnderLock(t) ==
    /\ ~aborted /\ cur[t].inner.call = "api"
    /\ CanRead(t)
    /\ channel' = ChannelSend(channel, chanOpen,
                     Command(cur[t].inner.method, cur[t].ext, cur[t].inner.id, 0, <<>>))
    /\ logged' = logged \cup {IF chanOpen THEN "request" ELSE "cannot"}
    /\ cur' = [cur EXCEPT ![t].inner = NoInner]
    /\ UNCHANGED <<core, extensions, writer, readers, client, pc, callbacks, started,
                   outside, apis, policy, chanOpen, apiCalls, aborted>>

\* self.channel.send(..), the log line, and the Api method returns to the
\* handler
InnerApiEnd(t) ==
    /\ ~aborted /\ cur[t].inner.call = "api"
    /\ channel' = ChannelSend(channel, chanOpen,
                     Command(cur[t].inner.method, cur[t].ext, cur[t].inner.id, 0, <<>>))
    /\ logged' = logged \cup {IF chanOpen THEN "request" ELSE "cannot"}
    /\ cur' = [cur EXCEPT ![t].inner = NoInner]
    /\ UNCHANGED <<core, extensions, writer, readers, client, pc, callbacks, started,
                   outside, apis, policy, chanOpen, apiCalls, aborted>>

\* the handler calls a targeted dispatch method of the router it is called
\* from: self.extensions.read()
InnerReadRequest(t, m, n, id, limit) ==
    /\ Running /\ InHandler(t)
    /\ cur[t].inner = NoInner
    /\ started < limit
    /\ started' = started + 1
    /\ cur' = [cur EXCEPT ![t].inner = [NoInner EXCEPT !.call = "read_wait", !.method = m,
                                                       !.name = n, !.id = id,
                                                       !.op = started + 1]]
    /\ UNCHANGED <<core, extensions, writer, readers, client, pc, callbacks, outside,
                   apis, policy, channel, chanOpen, apiCalls, aborted, logged>>

\* read() returns the second guard; extensions.get(name), the handler of the
\* entry found or the log line; the second guard is dropped and the nested
\* call returns to the handler
InnerDispatchRun(t) ==
    /\ ~aborted /\ cur[t].inner.call = "read_wait"
    /\ CanRead(t)
    /\ LET e == TargetOf(extensions, cur[t].inner.name) IN
         callbacks' =
             IF e # NoExt
             THEN [callbacks EXCEPT ![e] =
                      Push(@, Observed(cur[t].inner.method, cur[t].inner.id, <<>>,
                                       cur[t].inner.op, t))]
             ELSE callbacks
    /\ logged' = IF TargetOf(extensions, cur[t].inner.name) # NoExt
                 THEN logged ELSE logged \cup {"doesn't exist"}
    /\ cur' = [cur EXCEPT ![t].inner = NoInner]
    /\ UNCHANGED <<core, extensions, writer, readers, client, pc, started, outside,
                   apis, policy, channel, chanOpen, apiCalls, aborted>>

\* the handler calls register_extension on the router it is called from:
\* self.extensions.write() parks the thread
InnerRegisterRequest(t, e) ==
    /\ Running /\ InHandler(t)
    /\ cur[t].inner = NoInner
    /\ outside[e]
    /\ cur' = [cur EXCEPT ![t].inner = [NoInner EXCEPT !.call = "write_wait", !.ext = e,
                                                       !.name = name(e)]]
    /\ UNCHANGED <<core, extensions, writer, readers, client, pc, callbacks, started,
                   outside, apis, policy, channel, chanOpen, apiCalls, aborted, logged>>

\* the calls a handler makes from inside a callback
Inner(T, limit) ==
    \E t \in T :
        \/ \E m \in {"connect"} : \E id \in {1} : InnerApiBegin(t, m, id)
        \/ InnerApiEnd(t)
        \/ \E n \in Names : InnerReadRequest(t, "on_timeout", n, 1, limit)
        \/ InnerDispatchRun(t)
        \/ \E e \in Ext : InnerRegisterRequest(t, e)

\* a thread that is in no callback calls a method of an Api it holds
OuterApi(T) ==
    \E t \in T :
        \/ \E e \in Ext : ApiUpgrade(t, e, "clear_timer", 3, 0, <<>>)
        \/ ApiSend(t)

\* register_extension with the wait for the lock and on_initialize as steps
RegisterBySteps(T) ==
    \E t \in T :
        \/ \E e \in Ext : RegRequest(t, e)
        \/ RegInsert(t)
        \/ RegDuplicateUnwind(t)
        \/ RegDuplicateAbort(t)
        \/ RegInitEnter(t)
        \/ RegInitReturn(t)

\* dispatches with the handler as a step; read() waits behind a parked writer
DispatchBySteps(T, limit) ==
    \E t \in T :
        \/ \E n \in Names : TgLock(t, "on_message", n, 1, <<>>, limit) /\ CanRead(t)
        \/ TgHandlerEnter(t)
        \/ TgHandlerReturn(t)
        \/ TgCall(t) /\ TargetOf(extensions, cur[t].name) = NoExt
        \/ BcLock(t, "on_node_added", 1, limit) /\ CanRead(t)
        \/ BcHandlerEnter(t)
        \/ BcHandlerReturn(t)
        \/ BcRet(t)

(* ---------------------------------------------------------------------- *)
(* core/state/asset_scheme.rs: AssetSchemeAddress                          *)
(* ---------------------------------------------------------------------- *)

\* 'S' as u8
TagS == 83

\* a u8
Byte == 0..255

\* the H256 values the conversions are tried on: the bytes at the edges of the
\* tag (0..4), of the world id (4..8) and of the rest (8..32) take each of the
\* sampled values, the other bytes are 16 + i
ByteSamples == {0, TagS, 200}
Probes == {0, 1, 4, 7, 8, 31}
Hashes ==
    {[i \in 0..31 |-> IF i \in Probes THEN f[i] ELSE 16 + i] : f \in [Probes -> ByteSamples]}

\* &['S' as u8, 0, 0, 0, 0, 0, 0, 0]
AddressPrefix == <<TagS, 0, 0, 0, 0, 0, 0, 0>>

\* hash[lo..hi].clone_from_slice(src)
CloneFromSlice(h256, lo, hi, src) ==
    [i \in 0..31 |-> IF lo <= i /\ i < hi THEN src[i - lo + 1] ELSE h256[i]]

\* hash[lo..hi] as a slice
Slice(h256, lo, hi) == [i \in 1..(hi - lo) |-> h256[lo + i - 1]]

\* a failed debug_assert_eq!
Panicked == [is |-> "panicked"]

\* AssetSchemeAddress::new: the two debug_assert_eq! (compiled out of a release
\* build, where the hash is wrapped as it is), then the tuple struct
AssetSchemeAddressNew(h256, debug) ==
    IF debug /\ ~(Slice(h256, 0, 4) = <<TagS, 0, 0, 0>> /\ Slice(h256, 4, 8) = <<0, 0, 0, 0>>)
    THEN Panicked
    ELSE [is |-> "AssetSchemeAddress", hash |-> h256]

\* a conversion that writes the tag and leaves the world id as it is
AssetSchemeAddressFromTagOnly(h256, debug) ==
    [is |-> "AssetSchemeAddress", hash |-> CloneFromSlice(h256, 0, 4, AddressPrefix)]

\* impl From<H256> for AssetSchemeAddress
AssetSchemeAddressFrom(h256, debug) ==
    AssetSchemeAddressNew(CloneFromSlice(h256, 0, 8, AddressPrefix), debug)

\* impl Into<H256> for AssetSchemeAddress: self.0
AssetSchemeAddressInto(addr) == addr.hash

\* let asset_address = AssetSchemeAddress::from(origin), in a debug or a
\* release build
AddressFrom ==
    /\ address = NoAddress
    /\ \E debug \in BOOLEAN : address' = AssetSchemeAddressFrom(hash, debug)
    /\ UNCHANGED <<router, hash, scheme, other>>

\* let hash: H256 = asset_address.into()
AddressInto ==
    /\ address \notin {NoAddress, Panicked}
    /\ hash' = AssetSchemeAddressInto(address)
    /\ address' = NoAddress
    /\ UNCHANGED <<router, scheme, other>>

(* ---------------------------------------------------------------------- *)
(* core/state/asset_scheme.rs: AssetScheme as a CacheableItem              *)
(* ---------------------------------------------------------------------- *)

\* String, as its UTF-8 bytes: "" and "m"
Metadatas == {<<>>, <<109>>}
\* H256
LockScripts == {ZeroHash, [i \in 0..31 |-> 255 - i]}
\* Vec<Bytes>
ParameterLists == {<<>>, <<<<7>>, <<1, 2>>>>}
\* U256
Remainders == {0, 300}
\* Option<Address>: None, or Some of 20 bytes
Registrars == {<<>>, <<[i \in 1..20 |-> i]>>}

\* AssetScheme::new
AssetSchemeNew(metadata, lock_script, parameters, remainder, registrar) ==
    [metadata |-> metadata, lock_script |-> lock_script, parameters |-> parameters,
     remainder |-> remainder, registrar |-> registrar]

Schemes ==
    {AssetSchemeNew(m, l, p, r, g) :
        m \in Metadatas, l \in LockScripts, p \in ParameterLists,
        r \in Remainders, g \in Registrars}

\* CacheableItem::overwrite_with: the four assignments
OverwriteWith(self, with) ==
    [self EXCEPT !.metadata = with.metadata,
                 !.lock_script = with.lock_script,
                 !.registrar = with.registrar,
                 !.remainder = with.remainder]

\* CacheableItem::is_null: self.remainder.is_zero()
IsNull(self) == self.remainder = 0

RECURSIVE BigEndian(_)
\* the bytes of an unsigned integer, most significant first, without leading zeros
BigEndian(n) == IF n = 0 THEN <<>> ELSE BigEndian(n \div 256) \o <<n % 256>>

RECURSIVE Concat(_)
Concat(seqs) == IF seqs = <<>> THEN <<>> ELSE Head(seqs) \o Concat(Tail(seqs))

\* RLP of a byte string shorter than 256 bytes
RlpItem(bytes) ==
    IF Len(bytes) = 1 /\ bytes[1] < 128 THEN bytes
    ELSE IF Len(bytes) < 56 THEN <<128 + Len(bytes)>> \o bytes
    ELSE <<184, Len(bytes)>> \o bytes

\* RLP of a list whose encoded items take less than 256 bytes
RlpList(items) ==
    LET payload == Concat(items) IN
      IF Len(payload) < 56 THEN <<192 + Len(payload)>> \o payload
      ELSE <<248, Len(payload)>> \o payload

\* CacheableItem::rlp: ::rlp::encode(self) with the derived RlpEncodable, the
\* list of the five fields in the order of their declaration
Rlp(self) ==
    RlpList(<<RlpItem(self.metadata),
              RlpItem(Slice(self.lock_script, 0, 32)),
              RlpList([i \in 1..Len(self.parameters) |-> RlpItem(self.parameters[i])]),
              RlpItem(BigEndian(self.remainder)),
              RlpList([i \in 1..Len(self.registrar) |-> RlpItem(self.registrar[i])])>>)

\* self.overwrite_with(other): other is moved into the call
Overwrite ==
    /\ other # NoScheme
    /\ scheme' = OverwriteWith(scheme, other)
    /\ other' = NoScheme
    /\ UNCHANGED <<router, hash, address>>

(* ---------------------------------------------------------------------- *)
(* Specifications                                                          *)
(* ---------------------------------------------------------------------- *)

Register(T) ==
    \E t \in T :
        \/ \E e \in Ext : RegLock(t, e)
        \/ RegInsert(t)
        \/ RegDuplicateUnwind(t)
        \/ RegDuplicateAbort(t)
        \/ RegInit(t)

Broadcast(T, limit) ==
    \E t \in T :
        \/ \E m \in BroadcastMethods : \E id \in BroadcastArgs(m) : BcLock(t, m, id, limit)
        \/ BcCall(t)
        \/ BcRet(t)

Targeted(T, limit) ==
    \E t \in T :
        \/ \E m \in TargetedMethods : \E n \in Names : \E id \in Tokens :
              \E data \in TargetedData(m) : TgLock(t, m, n, id, data, limit)
        \/ TgCall(t)

Teardown(T) ==
    \E t \in T :
        \/ DropBegin(t)
        \/ BcCall(t)
        \/ DropEnd(t)

ApiCall(T) ==
    \E t \in T :
        \/ \E e \in Ext : \E m \in ApiMethods : \E id \in ApiIds(m) :
              \E ms \in ApiMs(m) : \E data \in ApiData(m) :
                 \/ ApiUpgrade(t, e, m, id, ms, data)
                 \/ ApiDropped(t, e, m, id, ms, data)
        \/ ApiSend(t)

\* calls of Api::send alone, on extensions that are alive
SendCall(T) ==
    \E t \in T :
        \/ \E e \in Ext : \E id \in ApiIds("send") : \E data \in ApiData("send") :
              ApiUpgrade(t, e, "send", id, 0, data)
        \/ ApiSend(t)

Surroundings ==
    \/ \E e \in Ext : DropOutside(e)
    \/ SetChannel

\* the router under concurrent registration, dispatch and teardown
Next ==
    \/ Register(Bootstrap)
    \/ Broadcast(Threads, MaxDispatch)
    \/ Targeted(Threads, MaxDispatch)
    \/ Teardown(Threads)

Spec == Init /\ [][Next]_vars

\* one driver thread calling the router, one call after the other
NextDriver ==
    \/ Register(Bootstrap)
    \/ Broadcast(Bootstrap, MaxDriverCalls)
    \/ Targeted(Bootstrap, MaxDriverCalls)
    \/ Teardown(Bootstrap)

SpecDriver == Init /\ [][NextDriver]_vars

\* the Api handles, the extensions' lifetimes and the outbound channel
NextApi ==
    \/ Register(Bootstrap)
    \/ Teardown(Bootstrap)
    \/ ApiCall(ApiCallers)
    \/ Surroundings

SpecApi == Init /\ [][NextApi]_vars

\* the Api handles while the registered extensions change their encryption
\* policy
NextPolicy ==
    \/ Register(Bootstrap)
    \/ SendCall(ApiCallers)
    \/ \E e \in apis : SetPolicy(e)

SpecPolicy == Init /\ [][NextPolicy]_vars

\* the conversions between H256 and AssetSchemeAddress, on every sampled hash
InitAddress ==
    /\ ClientNew
    /\ hash \in Hashes
    /\ address = NoAddress
    /\ scheme = NoScheme
    /\ other = NoScheme

NextAddress ==
    \/ AddressFrom
    \/ AddressInto

SpecAddress == InitAddress /\ [][NextAddress]_vars

\* the router with handlers that call back into it
NextReentrant ==
    \/ RegisterBySteps(Bootstrap)
    \/ DispatchBySteps(Dispatchers, MaxReentrant)
    \/ Inner(Threads, MaxReentrant)
    \/ \E t \in Threads : WriteAcquire(t)
    \/ OuterApi(Dispatchers)

SpecReentrant == Init /\ [][NextReentrant]_vars

\* overwrite_with on every pair of sampled asset schemes
InitScheme ==
    /\ ClientNew
    /\ hash = ZeroHash
    /\ address = NoAddress
    /\ scheme \in Schemes
    /\ other \in Schemes

NextScheme == Overwrite

SpecScheme == InitScheme /\ [][NextScheme]_vars

(* ---------------------------------------------------------------------- *)
(* Properties                                                              *)
(* ---------------------------------------------------------------------- *)

\* how many times h holds the handler cb invoked by call op
CountOp(h, op, cb) == Cardinality({i \in 1..Len(h) : h[i].op = op /\ h[i].cb = cb})

IsPrefix(g, h) == Len(g) <= Len(h) /\ SubSeq(h, 1, Len(g)) = g

Last(h) == h[Len(h)]

InTable(e) == \E n \in Names : extensions[n] = e

\* C1: a registration under a name that is already registered is rejected and
\* leaves the table alone: while the router lives, a name that maps to an
\* extension keeps mapping to that extension, and an extension that is in the
\* table was given its Api
C1_OriginalEntryKept ==
    [][ /\ \A n \in Names :
             (extensions[n] # NoExt /\ client' # "dropped" /\ ~aborted')
                 => extensions'[n] = extensions[n]
        /\ \A n \in Names :
             (extensions'[n] # NoExt /\ writer' = NoThread /\ ~aborted')
                 => extensions'[n] \in apis'
      ]_vars

\* C2: the first callback an extension observes is on_initialize
C2_InitializeFirst ==
    \A e \in Ext : callbacks[e] # <<>> => callbacks[e][1].cb = "on_initialize"

\* C3: a targeted dispatch to a registered name adds exactly one invocation of
\* its handler to the history of the extension stored under that name, and
\* leaves the history of every other extension as it was
C3_TargetedOnlyNamed ==
    [][ \A t \in Threads :
          (pc[t] = "tg_call" /\ pc'[t] # "tg_call" /\ extensions[cur[t].name] # NoExt) =>
             LET e == extensions[cur[t].name] IN
               /\ Len(callbacks'[e]) = Len(callbacks[e]) + 1
               /\ IsPrefix(callbacks[e], callbacks'[e])
               /\ Last(callbacks'[e]).cb = cur[t].method
               /\ Last(callbacks'[e]).op = cur[t].op
               /\ \A f \in Ext \ {e} : callbacks'[f] = callbacks[f]
      ]_vars

\* two extensions are registered and a targeted dispatch has reached one of them
C3_Witness ==
    \E e, f \in Ext :
        /\ e # f /\ extensions[name(e)] = e /\ extensions[name(f)] = f
        /\ Len(callbacks[e]) = 2 /\ callbacks[e][2].cb \in TargetedMethods
        /\ Len(callbacks[f]) = 1

\* C4: a broadcast invokes its handler exactly once on every extension of the
\* table: during the loop each entry already visited has exactly one invocation
\* by this call and each entry still to visit (and each extension outside the
\* table) has none; when the loop ends nothing is left to visit
C4_BroadcastReachesAll ==
    \A t \in Threads :
        pc[t] = "bc_iter" =>
            \A e \in Ext :
                CountOp(callbacks[e], cur[t].op, cur[t].method) =
                    IF \E n \in Names : extensions[n] = e /\ n \notin cur[t].todo
                    THEN 1 ELSE 0

\* a broadcast has finished its loop over a table of two extensions
C4_Witness ==
    \E t \in Threads :
        /\ pc[t] = "bc_iter" /\ cur[t].todo = {} /\ client = "alive"
        /\ Cardinality(Registered(extensions)) = 2
        /\ \A n \in Names : CountOp(callbacks[extensions[n]], cur[t].op, cur[t].method) = 1

\* C5: a targeted dispatch to a name that is not in the table invokes no
\* handler, leaves the table alone and returns
C5_UnknownTargetNoOp ==
    [][ \A t \in Threads :
          (pc[t] = "tg_call" /\ pc'[t] # "tg_call" /\ extensions[cur[t].name] = NoExt) =>
             /\ callbacks' = callbacks
             /\ extensions' = extensions
             /\ pc'[t] = "idle" /\ t \notin readers'
             /\ ~aborted'
      ]_vars

\* a targeted dispatch missed while an extension was registered, and no
\* handler has run
C5_Witness ==
    /\ "doesn't exist" \in logged
    /\ \E n \in Names : extensions[n] # NoExt
    /\ \A e \in Ext : Len(callbacks[e]) <= 1
    /\ \A t \in Threads : pc[t] = "idle"

\* C6: the drop of the router invokes on_close exactly once on every extension
\* of the table and on no other, the table is released only then, and after
\* the drop no extension observes anything
C6_DropClosesAll ==
    [][ /\ \A t \in Threads :
             (pc[t] = "bc_iter" /\ client = "dropping" /\ client' = "dropped") =>
                 /\ \A e \in Ext : CountOp(callbacks[e], cur[t].op, "on_close") =
                                      IF InTable(e) THEN 1 ELSE 0
                 /\ callbacks' = callbacks
        /\ (client = "dropping" /\ client' = "dropping") => extensions' = extensions
        /\ client = "dropped" => (callbacks' = callbacks /\ client' = "dropped")
      ]_vars

\* the router was dropped with two extensions in its table
C6_Witness ==
    /\ client = "dropped"
    /\ \E e, f \in Ext : e # f /\ Len(callbacks[e]) = 2 /\ Len(callbacks[f]) = 2
                        /\ Last(callbacks[e]).cb = "on_close"
                        /\ Last(callbacks[f]).cb = "on_close"

\* C7: an extension observes on_close only at the teardown of the router, and
\* nothing after it
C7_CloseOnlyAtTeardown ==
    \A e \in Ext : \A i \in 1..Len(callbacks[e]) :
        callbacks[e][i].cb = "on_close" => (client # "alive" /\ i = Len(callbacks[e]))

\* C8: the targeted dispatches of one driver appear in the history of their
\* extension in the order of the calls, each once, with the identifier and
\* the payload of the call; what an extension has observed is never reordered
\* or removed
C8_OrderKept ==
    [][ /\ \A e \in Ext :
             /\ IsPrefix(callbacks[e], callbacks'[e])
             /\ Len(callbacks'[e]) <= Len(callbacks[e]) + 1
             /\ \A i, j \in 1..Len(callbacks'[e]) :
                  (i < j /\ callbacks'[e][i].by = callbacks'[e][j].by
                         /\ callbacks'[e][j].cb \in TargetedMethods)
                     => callbacks'[e][i].op < callbacks'[e][j].op
        /\ \A t \in Threads :
             (pc[t] = "tg_call" /\ pc'[t] # "tg_call" /\ extensions[cur[t].name] # NoExt) =>
                 LET r == Last(callbacks'[extensions[cur[t].name]]) IN
                    r = [cb |-> cur[t].method, id |-> cur[t].id, data |-> cur[t].data,
                         op |-> cur[t].op, by |-> t]
      ]_vars

\* an extension has observed two targeted dispatches, node 5 and then node 1
C8_Witness ==
    \E e \in Ext :
        /\ Len(callbacks[e]) = 3
        /\ callbacks[e][2].cb = "on_message" /\ callbacks[e][2].id = 5
        /\ callbacks[e][3].cb = "on_message" /\ callbacks[e][3].id = 1

\* C9: an Api call on an extension that no strong reference holds goes no
\* further than the upgrade: it queues nothing, invokes nothing and returns;
\* only a call that found its extension alive reaches the channel
C9_DeadExtensionNoOp ==
    [][ /\ \A t \in Threads :
             (pc[t] # "api_send" /\ pc'[t] = "api_send") => Alive(cur'[t].ext)
        /\ (apiCalls' = apiCalls + 1 /\ pc' = pc) =>
             /\ channel' = channel
             /\ callbacks' = callbacks
             /\ extensions' = extensions
             /\ ~aborted'
        /\ channel' # channel => \E t \in Threads : pc[t] = "api_send"
      ]_vars

\* an Api call was made on a destroyed extension
C9_Witness ==
    /\ "already dropped" \in logged
    /\ \E e \in apis : ~Alive(e)

C11_CommandPerCall ==
    [][ /\ IsPrefix(channel, channel')
        /\ Len(channel') <= Len(channel) + 1
        /\ \A t \in Threads :
             (pc[t] = "api_send" /\ pc'[t] # "api_send" /\ chanOpen) =>
                LET c == cur[t] IN
                  /\ c.ext \in apis /\ Alive(c.ext)
                  /\ Len(channel') = Len(channel) + 1
                  /\ Last(channel').extension_name = name(c.ext)
                  /\ c.method = "send" =>
                        Last(channel') =
                           [type |-> "SendExtensionMessage", node_id |-> c.id,
                            extension_name |-> name(c.ext),
                            need_encryption |-> policy[c.ext], data |-> c.data]
                  /\ c.method = "connect" =>
                        Last(channel') =
                           [type |-> "RequestNegotiation", node_id |-> c.id,
                            extension_name |-> name(c.ext), version |-> 0]
                  /\ c.method = "set_timer" =>
                        Last(channel') =
                           [type |-> "SetTimer", extension_name |-> name(c.ext),
                            timer_id |-> c.id, ms |-> c.ms]
                  /\ c.method = "set_timer_once" =>
                        Last(channel') =
                           [type |-> "SetTimerOnce", extension_name |-> name(c.ext),
                            timer_id |-> c.id, ms |-> c.ms]
                  /\ c.method = "clear_timer" =>
                        Last(channel') =
                           [type |-> "ClearTimer", extension_name |-> name(c.ext),
                            timer_id |-> c.id]
                  /\ c.method \in ApiMethods
      ]_vars

\* two calls on the Apis of two extensions were accepted: a connect to node 5
\* for "a", then a set_timer_once for "b"
C11_Witness ==
    /\ Len(channel) = 2
    /\ channel[1] = [type |-> "RequestNegotiation", node_id |-> 5,
                     extension_name |-> "a", version |-> 0]
    /\ channel[2].type = "SetTimerOnce" /\ channel[2].extension_name = "b"
    /\ channel[2].timer_id = 3 /\ channel[2].ms = 100

\* C12: the need_encryption of a SendExtensionMessage command is what the
\* extension's need_encryption() returns when the send call asks it, whatever
\* it returned at registration or at an earlier send
C12_PolicyReadAtSend ==
    [][ \A t \in Threads :
          (pc[t] = "api_send" /\ pc'[t] # "api_send" /\ chanOpen
              /\ cur[t].method = "send") =>
             /\ Last(channel').type = "SendExtensionMessage"
             /\ Last(channel').need_encryption = policy[cur[t].ext]
             /\ \A i \in 1..Len(channel) : channel'[i] = channel[i]
      ]_vars

\* an extension registered with need_encryption() = false changed its policy
\* before a send and again before the next one
C12_Witness ==
    /\ Len(channel) = 2
    /\ channel[1].type = "SendExtensionMessage" /\ channel[1].need_encryption
    /\ channel[2].type = "SendExtensionMessage" /\ ~channel[2].need_encryption
    /\ channel[1].extension_name = channel[2].extension_name

\* C13: AssetSchemeAddress::from(h) never fails, and converted back it gives
\* a hash whose bytes 0..4 are 'S', 0, 0, 0, whose bytes 4..8 are 0 and whose
\* bytes 8..32 are those of h; converting that hash again gives the same
\* address and the same hash
C13_AddressRoundTrip ==
    [][ /\ address' # Panicked
        /\ (address # NoAddress /\ address' = NoAddress) =>
             /\ Slice(hash', 0, 4) = <<83, 0, 0, 0>>
             /\ Slice(hash', 4, 8) = <<0, 0, 0, 0>>
             /\ \A i \in 8..31 : hash'[i] = hash[i]
             /\ hash' \in [0..31 -> Byte]
             /\ \A debug \in BOOLEAN :
                   /\ AssetSchemeAddressFrom(hash', debug) = address
                   /\ AssetSchemeAddressInto(AssetSchemeAddressFrom(hash', debug)) = hash'
      ]_vars

\* a hash that began with a non-zero world id and without the tag went
\* through the conversion and back, and then through it again
C13_Witness ==
    /\ address # NoAddress
    /\ AssetSchemeAddressInto(address) = hash
    /\ hash[0] = 83 /\ hash[2] = 0 /\ hash[4] = 0
    /\ hash[8] = 200 /\ hash[31] = 83

\* the exclusive guard excludes every other guard, a registration between its
\* insertion and the return of on_initialize holds it, and a dispatch that
\* reads the table or runs a handler holds a shared guard
LockDiscipline ==
    /\ writer # NoThread => (readers = {} /\ pc[writer] \in {"reg_insert", "reg_init"})
    /\ \A t \in Threads : pc[t] \in {"reg_insert", "reg_init"} => writer = t
    /\ \A t \in Threads : pc[t] \in {"bc_iter", "tg_call"} => (t \in readers /\ writer = NoThread)

\* C14: registration excludes dispatch and dispatch excludes registration, so
\* that whenever a dispatch holds the table every entry it can read is one
\* whose registration ran to the end: it was inserted and given on_initialize
C14_NoPartialEntryObserved ==
    /\ LockDiscipline
    /\ readers # {} =>
          \A n \in Names :
              extensions[n] # NoExt =>
                 /\ extensions[n] \in apis
                 /\ callbacks[extensions[n]] # <<>>
                 /\ callbacks[extensions[n]][1].cb = "on_initialize"

\* C15: a handler that calls register_extension from inside a broadcast or a
\* targeted dispatch never gets out of write(): the nested registration gets
\* no further, the handler does not return, the dispatch keeps its read
\* guard, and nobody is granted the exclusive lock
C15_ReentrantRegisterDeadlocks ==
    [][ \A t \in Threads :
          (pc[t] \in {"tg_handler", "bc_handler"} /\ cur[t].inner.call = "write_wait") =>
             /\ pc'[t] = pc[t]
             /\ cur'[t] = cur[t]
             /\ t \in readers'
             /\ writer' = NoThread
             /\ extensions' = extensions
      ]_vars

\* the handler of a targeted dispatch is parked in a nested register_extension
\* and a registration of another thread is parked behind the dispatch
C15_Witness ==
    \E t, u \in Threads :
        /\ pc[t] = "tg_handler" /\ cur[t].inner.call = "write_wait"
        /\ pc[u] = "reg_wait"
        /\ readers = {t}

\* t is inside a method of an Api, called from outside or from a handler
ApiInProgress(t) == pc[t] = "api_send" \/ cur[t].inner.call = "api"

\* C16: an Api call takes no registry lock and waits for none: whatever
\* guards are out, its own thread's included (the read guard of the dispatch
\* whose handler makes the call, the write guard of the registration whose
\* on_initialize makes it), a call in progress can finish; the steps of an Api
\* call leave the lock as it is, and finishing returns to the caller
C16_ApiNeverLocks ==
    [][ /\ \A t \in Threads :
             /\ pc[t] = "api_send" => ENABLED ApiSend(t)
             /\ cur[t].inner.call = "api" => ENABLED InnerApiEnd(t)
        /\ (apiCalls' # apiCalls \/ \E t \in Threads : ApiInProgress(t) /\ ~ApiInProgress(t)')
              => (writer' = writer /\ readers' = readers)
        /\ \A t \in Threads :
             (cur[t].inner.call = "api" /\ cur'[t].inner.call # "api")
                => (pc'[t] = pc[t] /\ cur'[t].inner = NoInner)
      ]_vars

\* on_initialize has made an Api call under the write guard of its
\* registration, and the command is on the channel
C16_Witness ==
    \E t \in Threads :
        /\ pc[t] = "init_handler" /\ writer = t
        /\ cur[t].inner = NoInner
        /\ Len(channel) = 1
        /\ channel[1].extension_name = name(cur[t].ext)

\* neither the table, nor an owner outside, nor a registration in progress
\* holds a strong reference to e
Released(e) ==
    /\ ~outside[e]
    /\ ~InTable(e)
    /\ ~\E t \in Threads : InRegister(t) /\ cur[t].ext = e

\* C17 as stated: once the router and the holders outside have released
\* their references the extension is destroyed, at every point, also while an
\* Api call is in progress on it
C17_NeverKeptAlive ==
    \A e \in Ext : Released(e) => ~Alive(e)

\* C17, amended: an Api handle by itself never keeps its extension alive; a
\* released extension is alive exactly while an Api call that found it alive
\* is in progress on it (the call holds the upgraded reference until it
\* returns), however many Api handles to it remain
C17_KeptOnlyDuringCall ==
    \A e \in Ext :
        Released(e) =>
            (Alive(e) <=> \E t \in Threads : pc[t] = "api_send" /\ cur[t].ext = e)

\* an Api call was in progress when the last other reference went, it has
\* returned, and the extension is destroyed although its Api remains
C17_Witness ==
    \E e \in apis :
        /\ Released(e) /\ ~Alive(e)
        /\ Len(channel) = 1 /\ channel[1].extension_name = name(e)
        /\ "already dropped" \notin logged
        /\ \A t \in Threads : pc[t] # "api_send"
        /\ client = "dropped"

\* how many times h holds the callback cb
CountCb(h, cb) == Cardinality({i \in 1..Len(h) : h[i].cb = cb})

\* C18: on_initialize is invoked only by register_extension, after the
\* insertion and under the write guard, in the step that creates the one Api
\* of the registration, and the guard is still held while it runs; a
\* registration that returns has created the Api of its extension and invoked
\* on_initialize on it exactly once; a rejected registration creates no Api
\* and invokes on_initialize on no extension
C18_InitializeOncePerRegistration ==
    [][ /\ \A e \in Ext :
             CountCb(callbacks'[e], "on_initialize") # CountCb(callbacks[e], "on_initialize") =>
                \E t \in Threads :
                   /\ pc[t] = "reg_init" /\ cur[t].ext = e
                   /\ extensions[name(e)] = e
                   /\ writer = t /\ writer' = t /\ readers' = {}
                   /\ e \notin apis /\ apis' = apis \cup {e}
                   /\ callbacks'[e] = <<Observed("on_initialize", NoToken, <<>>, 0, t)>>
                   /\ \A f \in Ext \ {e} : callbacks'[f] = callbacks[f]
        /\ apis' # apis =>
             \E e \in Ext :
                /\ apis' = apis \cup {e}
                /\ CountCb(callbacks'[e], "on_initialize") =
                      CountCb(callbacks[e], "on_initialize") + 1
        /\ \A t \in Threads :
             /\ (pc[t] = "init_handler" /\ pc'[t] = "idle") =>
                   /\ cur[t].ext \in apis
                   /\ CountCb(callbacks[cur[t].ext], "on_initialize") = 1
                   /\ writer = t /\ writer' = NoThread
                   /\ apis' = apis /\ callbacks' = callbacks
             /\ (pc[t] = "reg_insert" /\ pc'[t] # "reg_init") =>
                   (apis' = apis /\ callbacks' = callbacks)
             /\ (pc[t] = "reg_insert" /\ pc'[t] = "reg_init") =>
                   (apis' = apis /\ callbacks' = callbacks /\ writer' = t)
      ]_vars

\* two registrations have returned and a third, under a name already taken,
\* was rejected
C18_Witness ==
    /\ pc["t1"] = "panicked"
    /\ Cardinality(apis) = 2
    /\ \A e \in Ext : CountCb(callbacks[e], "on_initialize") = (IF e \in apis THEN 1 ELSE 0)
    /\ \E e \in Ext : InTable(e) /\ e \notin apis

\* a nested read() parked behind a parked writer, while its own thread's
\* outer read guard keeps that writer parked: neither ever moves again
ReadBehindWriterStuck ==
    [][ \A t, u \in Threads :
          (pc[t] \in {"tg_handler", "bc_handler"} /\ cur[t].inner.call = "read_wait"
              /\ pc[u] = "reg_wait") =>
             /\ pc'[t] = pc[t] /\ cur'[t] = cur[t]
             /\ pc'[u] = pc[u] /\ cur'[u] = cur[u]
             /\ readers' = readers /\ writer' = NoThread
      ]_vars

\* C19: a handler of a dispatch that calls a dispatch method of the same
\* router is granted the second read guard whenever it asks, also while
\* another thread is parked in register_extension, so the nested call can
\* run and return
C19_NestedDispatchCompletes ==
    \A t \in Threads :
        (pc[t] \in {"tg_handler", "bc_handler"} /\ cur[t].inner.call = "read_wait") =>
            (CanRead(t) /\ ENABLED InnerDispatchRun(t))

\* a nested dispatch has run and returned to its handler
NestedDispatchDone ==
    \E t \in Threads : \E e \in Ext : \E i \in 1..Len(callbacks[e]) :
        /\ pc[t] = "tg_handler" /\ cur[t].inner = NoInner
        /\ callbacks[e][i].cb = "on_timeout" /\ callbacks[e][i].by = t

\* C20: after self.overwrite_with(other) self equals other in every field,
\* its encoding is the encoding other had and it is null exactly if other was
C20_OverwriteCopiesAll ==
    [][ (other # NoScheme /\ other' = NoScheme) =>
           /\ scheme'.metadata = other.metadata
           /\ scheme'.lock_script = other.lock_script
           /\ scheme'.parameters = other.parameters
           /\ scheme'.remainder = other.remainder
           /\ scheme'.registrar = other.registrar
           /\ Rlp(scheme') = Rlp(other)
           /\ IsNull(scheme') = IsNull(other)
      ]_vars

\* what overwrite_with does copy: every field but parameters, and with them
\* is_null
OverwriteCopiesFour ==
    [][ (other # NoScheme /\ other' = NoScheme) =>
           /\ scheme'.metadata = other.metadata
           /\ scheme'.lock_script = other.lock_script
           /\ scheme'.remainder = other.remainder
           /\ scheme'.registrar = other.registrar
           /\ scheme'.parameters = scheme.parameters
           /\ IsNull(scheme') = IsNull(other)
           /\ (scheme.parameters = other.parameters <=> Rlp(scheme') = Rlp(other))
      ]_vars

====
